---- MODULE Spec2Model ----
(***************************************************************************)
(* Model of the report workflow of inventory_to_drive.py and               *)
(* returns_to_drive.py: main() submits a report request, resolves its      *)
(* requestId, polls the status listing, downloads the published file and   *)
(* relays it to Google Drive.  One action per HTTP call / blocking step of *)
(* main(); the reporting service is the environment.                       *)
(***************************************************************************)
EXTENDS Integers, Sequences, FiniteSets, TLC

VARIABLES
    reports,      \* service: the status listing, most recent entry first
    nextId,       \* service: the requestId the next accepted submission gets
    now,          \* wall clock, in seconds (time.time())
    prog,         \* per run: which script runs ("inventory" | "returns")
    folderId,     \* GDRIVE_FOLDER_ID, "" when not configured
    pc,           \* per run: position in main()
    request_id,   \* per run: main()'s request_id
    download_url, \* per run: main()'s download_url
    start_time,   \* per run: main()'s start_time
    exc,          \* per run: the uncaught exception that ended main(), "" if none
    file_path,    \* per run: main()'s file_path, NoPath before the download step
    stream,       \* per run: chunks of the download response not yet read
    files,        \* local filesystem: path -> sequence of chunks written
    handles,      \* runs holding an open file handle on their file_path
    token,        \* TOKEN_FILE (token.json): "unread" until a run looks at it, then
                  \* "absent" or the kind of credentials in it
    hist          \* per run: record of what the run has issued so far (history)

vars == <<reports, nextId, now, prog, folderId, pc, request_id, download_url,
          start_time, exc, file_path, stream, files, handles, token, hist>>

----------------------------------------------------------------------------
(* Bounds of the model *)

\* the most entries the status listing holds
MaxReports == 3
\* the most chunks a download response carries
MaxChunks == 2
\* seconds an HTTP call of the poll loop takes
CallSeconds == 250

(* Program constants *)
POLL_INTERVAL == 2
MAX_WAIT_SECONDS == 600
\* Python's None, for request_id values (requestIds are positive integers)
None == -1

Runs == {1, 2}
Progs == {"inventory", "returns"}

----------------------------------------------------------------------------
(* Strings are tuples of tokens; NoneStr is Python's None where a string is   *)
(* expected.                                                                  *)

NoneStr == <<"<None>">>

LowerTok(t) ==
    CASE t = "Login" -> "login"
      [] t = "LOGIN" -> "login"
      [] t = "HTTP"  -> "http"
      [] t = "HTTPS" -> "https"
      [] OTHER       -> t

\* str.lower()
Lower(s) == [i \in 1..Len(s) |-> LowerTok(s[i])]

\* sub in s, for a one-token sub
Contains(s, tok) == \E i \in 1..Len(s) : s[i] = tok

\* str.startswith("http"): the first token begins with the letters http
StartsWithHttp(s) == Len(s) > 0 /\ s[1] \in {"http", "https"}

RECURSIVE LStrip(_)
\* str.lstrip()
LStrip(s) == IF Len(s) > 0 /\ s[1] = " " THEN LStrip(Tail(s)) ELSE s

Digits == <<"1", "2", "3", "4", "5", "6", "7", "8", "9">>
\* the decimal rendering of a requestId, and its parse
ToStr(n) == Digits[n]
IsDigits(t) == \E n \in 1..Len(Digits) : Digits[n] = t
ParseInt(t) == CHOOSE n \in 1..Len(Digits) : Digits[n] = t

----------------------------------------------------------------------------
(* HTTP responses and JSON values *)

\* a response of the generation endpoint: status code and body text
Resp(code, text) == [status_code |-> code, text |-> text]
NoResp == Resp(0, <<>>)

\* the body {"id": <id>}
IdBody(id) == <<"{", "id", ":", ToStr(id), "}">>

\* what the service may answer to a submission it accepted as request id ...
AcceptedResponses(id) ==
    { Resp(200, IdBody(id)), Resp(202, IdBody(id)), Resp(204, <<>>),
      Resp(201, <<"[", "]">>) }

\* ... and to one it did not accept
RejectedResponses ==
    { Resp(401, <<>>), Resp(403, <<"Forbidden">>),
      Resp(200, <<"<html>", "Login", "</html>">>), Resp(500, <<"error">>) }

\* resp.json().get("id") of lines 146-147: the id of a body {"id": n}; None for
\* a JSON object without id, and for a body whose .json() or .get raises (the
\* bare except passes)
JsonGetId(text) ==
    IF Len(text) = 5 /\ text[1] = "{" /\ text[2] = "id" /\ text[3] = ":"
       /\ IsDigits(text[4]) /\ text[5] = "}"
    THEN ParseInt(text[4])
    ELSE None

\* Python truthiness of a request_id
Truthy(id) == id # None /\ id # 0

\* lines 155-156: if not request_id: raise RuntimeError
ResolutionNeverFails(id) == FALSE
ResolutionFails(id) == ~Truthy(id)

\* assert_session_alive without .lower(): only a lower-case "login" is seen
assert_session_alive_cased(resp) ==
    IF resp.status_code \in {401, 403}
    THEN "RuntimeError: Session expired or unauthorized"
    ELSE IF Contains(resp.text, "login")
         THEN "RuntimeError: Redirected to login page"
         ELSE ""

\* assert_session_alive(resp): the message of the RuntimeError it raises, "" if
\* it returns
assert_session_alive(resp) ==
    IF resp.status_code \in {401, 403}
    THEN "RuntimeError: Session expired or unauthorized"
    ELSE IF Contains(Lower(resp.text), "login")
         THEN "RuntimeError: Redirected to login page"
         ELSE ""

\* lines 143-147 reading a key the body does not have
BodyRequestIdWrongKey(resp) == None

\* lines 143-147: the request_id main() takes from the generation response
BodyRequestId(resp) ==
    IF resp.status_code \in {200, 201, 204} /\ resp.text # <<>>
    THEN JsonGetId(resp.text)
    ELSE None

\* line 135 (returns_to_drive.py: 143): the reportId of the script's payload
ReportId(p) == IF p = "inventory" THEN 106899 ELSE 107071

\* an entry of the status listing; requestId is None for an entry without one
Entry(id, status) == [requestId |-> id, status |-> status]
Statuses == {"PENDING", "RUNNING", "COMPLETED", "FAILED"}

\* the requestIds of a listing, in its order
RequestIds(listing) == [i \in 1..Len(listing) |-> listing[i].requestId]

\* lines 152-153 taking reports[-1] instead of reports[0]
LastRequestId(listing) ==
    IF listing # <<>> THEN listing[Len(listing)].requestId ELSE None

\* lines 152-153: the request_id main() takes from the fallback listing
FirstRequestId(listing) ==
    IF listing # <<>> THEN listing[1].requestId ELSE None

\* line 166 looking at reports[0] only
FindTargetHead(listing, id) ==
    IF listing # <<>> /\ listing[1].requestId = id THEN 1 ELSE 0

\* line 166: next((x for x in reports if x.get("requestId") == request_id), None);
\* 0 when no entry matches, else the index of the first match
FindTarget(listing, id) ==
    IF \E i \in 1..Len(listing) : listing[i].requestId = id
    THEN CHOOSE i \in 1..Len(listing) :
            /\ listing[i].requestId = id
            /\ \A j \in 1..(i - 1) : listing[j].requestId # id
    ELSE 0

----------------------------------------------------------------------------
(* History of a run *)

NoPath == <<"", -1>>
NoVal == [kind |-> "none", has |-> FALSE, s |-> <<>>]

InitHist ==
    [ reportId |-> 0, resp |-> NoResp, ownId |-> None, nPost |-> 0, nFallback |-> 0,
      fbOk |-> FALSE, fbIds |-> <<>>, interposed |-> FALSE,
      polled |-> FALSE, detailed |-> FALSE, slept |-> FALSE, detailVal |-> NoVal,
      resolved |-> NoneStr, sinceResolve |-> 0, timedOut |-> FALSE,
      getCalls |-> 0, getUrl |-> NoneStr, sent |-> FALSE, dlStatus |-> 0,
      completeMsg |-> FALSE, artifact |-> <<>>,
      uploadCalls |-> 0, uploadArg |-> NoPath, uploadError |-> "",
      pollId |-> None, detailId |-> None, seenAt |-> 0, seenStatus |-> "",
      respOpen |-> FALSE ]

\* the run r ends with the uncaught exception e
Raise(r, e) == /\ exc' = [exc EXCEPT ![r] = e]
               /\ pc' = [pc EXCEPT ![r] = "done"]

----------------------------------------------------------------------------
(* The initial state: the listing is empty or holds one older entry *)

TokenStates == {"absent", "valid", "expired", "invalid"}

InitialListings ==
    { <<>>, <<Entry(1, "COMPLETED")>>, <<Entry(None, "COMPLETED")>> }

Init ==
    /\ reports \in InitialListings
    /\ nextId = 2
    /\ now = 0
    /\ prog \in { f \in [Runs -> Progs] : f[2] = "inventory" }
    /\ folderId \in {"", "folder"}
    /\ pc = [r \in Runs |-> "generate"]
    /\ request_id = [r \in Runs |-> None]
    /\ download_url = [r \in Runs |-> NoneStr]
    /\ start_time = [r \in Runs |-> 0]
    /\ exc = [r \in Runs |-> ""]
    /\ file_path = [r \in Runs |-> NoPath]
    /\ stream = [r \in Runs |-> <<>>]
    /\ files = [p \in {} |-> <<>>]
    /\ handles = {}
    /\ token = "unread"
    /\ hist = [r \in Runs |-> InitHist]

----------------------------------------------------------------------------
(* Submission and requestId resolution, lines 139-161 *)

\* the runs that have submitted and not yet resolved their request_id
Waiting(r) == { q \in Runs \ {r} : pc[q] = "fallback" }

\* the service accepts a submission: a new first entry of the listing
Accept(status) ==
    /\ Len(reports) < MaxReports
    /\ nextId <= Len(Digits)
    /\ reports' = <<Entry(nextId, status)>> \o reports
    /\ nextId' = nextId + 1

\* lines 140-149 and 155-161: session.post, assert_session_alive, the id of
\* the body; with an id, the poll loop is entered
AfterGenerate(r, resp, own) ==
    LET err == assert_session_alive(resp)
        id  == BodyRequestId(resp)
        h   == [hist[r] EXCEPT !.reportId = ReportId(prog[r]), !.resp = resp,
                               !.ownId = own, !.nPost = @ + 1]
    IN  /\ hist' = [q \in Runs |->
                      IF q = r THEN h
                      ELSE IF own # None /\ q \in Waiting(r)
                           THEN [hist[q] EXCEPT !.interposed = TRUE]
                           ELSE hist[q]]
        /\ IF err # ""
           THEN /\ Raise(r, err)
                /\ UNCHANGED <<request_id, start_time>>
           ELSE /\ request_id' = [request_id EXCEPT ![r] = id]
                /\ exc' = exc
                /\ IF Truthy(id)
                   THEN /\ pc' = [pc EXCEPT ![r] = "poll"]
                        /\ start_time' = [start_time EXCEPT ![r] = now]
                   ELSE /\ pc' = [pc EXCEPT ![r] = "fallback"]
                        /\ start_time' = start_time

Generate(r) ==
    /\ pc[r] = "generate"
    /\ \/ /\ Accept("PENDING")
          /\ \E resp \in AcceptedResponses(nextId) : AfterGenerate(r, resp, nextId)
       \/ /\ UNCHANGED <<reports, nextId>>
          /\ \E resp \in RejectedResponses : AfterGenerate(r, resp, None)
       \/ \* session.post raises: no response
          /\ UNCHANGED <<reports, nextId, request_id, start_time>>
          /\ hist' = [hist EXCEPT ![r].nPost = @ + 1,
                                  ![r].reportId = ReportId(prog[r])]
          /\ Raise(r, "ConnectionError")
    /\ UNCHANGED <<now, prog, folderId, download_url, file_path, stream, files,
                   handles, token>>

\* lines 150-161: the fallback query of the status listing
FallbackListing(r) ==
    /\ pc[r] = "fallback"
    /\ \/ LET id == FirstRequestId(reports)
          IN  /\ hist' = [hist EXCEPT ![r].nFallback = @ + 1,
                                      ![r].fbOk = TRUE,
                                      ![r].fbIds = RequestIds(reports)]
              /\ request_id' = [request_id EXCEPT ![r] = id]
              /\ IF ResolutionFails(id)
                 THEN /\ Raise(r, "RuntimeError: Could not determine requestId")
                      /\ start_time' = start_time
                 ELSE /\ pc' = [pc EXCEPT ![r] = "poll"]
                      /\ start_time' = [start_time EXCEPT ![r] = now]
                      /\ exc' = exc
       \/ \* session.get or status_resp.json() raises
          /\ hist' = [hist EXCEPT ![r].nFallback = @ + 1]
          /\ Raise(r, "RequestException")
          /\ UNCHANGED <<request_id, start_time>>
    /\ UNCHANGED <<reports, nextId, now, prog, folderId, download_url,
                   file_path, stream, files, handles, token>>

----------------------------------------------------------------------------
(* The poll loop, lines 158-176 *)

\* a JSON value of the status-detail response: a string, an object (with or
\* without a "status" field holding a string) or a number
JStr(s)  == [kind |-> "str",  has |-> FALSE, s |-> s]
JDict(s) == [kind |-> "dict", has |-> TRUE,  s |-> s]
JDictNoStatus == [kind |-> "dict", has |-> FALSE, s |-> <<>>]
JNum(n)  == [kind |-> "num",  has |-> FALSE, s |-> <<ToStr(n)>>]

Url      == <<"https", "://files/r.xlsx">>
UpperUrl == <<"HTTP", "://files/r.xlsx">>

\* what the detail endpoint may answer
DetailVals ==
    { JStr(Url), JDict(Url), JStr(<<>>), JDict(UpperUrl), JDictNoStatus, JNum(5) }

\* line 173: val.get("status") if isinstance(val, dict) else str(val)
Normalize(val) ==
    IF val.kind = "dict"
    THEN IF val.has THEN val.s ELSE NoneStr
    ELSE val.s

\* line 174 without the break
LoopBreaksNever(url) == FALSE

\* line 174: download_url.startswith("http"), for a string
LoopBreaks(url) == StartsWithHttp(url)

\* line 163: the loop condition
WithinBudget(r) == now - start_time[r] < MAX_WAIT_SECONDS

\* seconds an HTTP call of the loop may take
Latencies == {CallSeconds}

\* a location beginning with a URL scheme
WellFormed(url) == url # NoneStr /\ Len(url) > 0 /\ url[1] \in {"http", "https"}

\* a poll step made after a well-formed location was seen
Later(h) == IF h.resolved # NoneStr THEN [h EXCEPT !.sinceResolve = 1] ELSE h

\* lines 166 and 171 as a fresh look at the newest entry of the listing
PollKeyNewest(r) == FirstRequestId(reports)

\* lines 166 and 171: the id the poll filters by and the detail URL carries
PollKey(r) == request_id[r]

\* line 170 taking every finished report for a ready one
IsFinished(status) == status \in {"COMPLETED", "FAILED"}

\* line 170: target.get("status") == "COMPLETED"
IsCompleted(status) == status = "COMPLETED"

\* the observation of a poll is history of that iteration of the loop only
Forget(h) == [h EXCEPT !.seenAt = 0, !.seenStatus = ""]

\* lines 163-170: one status-listing request and the search for the target
PollList(r) ==
    /\ pc[r] = "poll"
    /\ WithinBudget(r)
    /\ \/ LET i == FindTarget(reports, PollKey(r))
              h == [hist[r] EXCEPT
                      !.polled = TRUE, !.pollId = PollKey(r), !.seenAt = i,
                      !.seenStatus = IF i = 0 THEN "absent" ELSE reports[i].status]
          IN  /\ pc' = [pc EXCEPT ![r] =
                           IF i # 0 /\ IsCompleted(reports[i].status)
                           THEN "detail" ELSE "sleep"]
              /\ hist' = [hist EXCEPT ![r] = Later(h)]
              /\ exc' = exc
       \/ /\ Raise(r, "RequestException")
          /\ hist' = [hist EXCEPT ![r] =
                        Later([@ EXCEPT !.polled = TRUE, !.pollId = PollKey(r)])]
    /\ \E d \in Latencies : now' = now + d
    /\ UNCHANGED <<reports, nextId, prog, folderId, request_id, download_url,
                   start_time, file_path, stream, files, handles, token>>

\* line 163 evaluating to false: the budget has elapsed
PollTimeout(r) ==
    /\ pc[r] = "poll"
    /\ ~WithinBudget(r)
    /\ pc' = [pc EXCEPT ![r] = "download"]
    /\ hist' = [hist EXCEPT ![r].timedOut = TRUE]
    /\ UNCHANGED <<reports, nextId, now, prog, folderId, request_id,
                   download_url, start_time, exc, file_path, stream, files,
                   handles, token>>

\* lines 171-175: the detail request, the normalisation and the break
Detail(r) ==
    /\ pc[r] = "detail"
    /\ \/ \E val \in DetailVals :
            LET url == Normalize(val)
                h   == Later(Forget([hist[r] EXCEPT !.detailed = TRUE,
                                                    !.detailVal = val,
                                                    !.detailId = PollKey(r)]))
            IN  /\ download_url' = [download_url EXCEPT ![r] = url]
                /\ IF url = NoneStr
                   THEN /\ Raise(r, "AttributeError")
                        /\ hist' = [hist EXCEPT ![r] = h]
                   ELSE /\ exc' = exc
                        /\ pc' = [pc EXCEPT ![r] =
                                    IF LoopBreaks(url) THEN "download" ELSE "sleep"]
                        /\ hist' = [hist EXCEPT ![r] =
                                      IF WellFormed(url)
                                      THEN [h EXCEPT !.resolved = url] ELSE h]
       \/ /\ Raise(r, "RequestException")
          /\ hist' = [hist EXCEPT ![r] = Later(Forget([@ EXCEPT !.detailed = TRUE,
                                                                !.detailId = PollKey(r)]))]
          /\ download_url' = download_url
    /\ \E d \in Latencies : now' = now + d
    /\ UNCHANGED <<reports, nextId, prog, folderId, request_id, start_time,
                   file_path, stream, files, handles, token>>

\* line 176: time.sleep(POLL_INTERVAL)
Sleep(r) ==
    /\ pc[r] = "sleep"
    /\ now' = now + POLL_INTERVAL
    /\ pc' = [pc EXCEPT ![r] = "poll"]
    /\ hist' = [hist EXCEPT ![r] = Later(Forget([@ EXCEPT !.slept = TRUE]))]
    /\ UNCHANGED <<reports, nextId, prog, folderId, request_id, download_url,
                   start_time, exc, file_path, stream, files, handles, token>>

----------------------------------------------------------------------------
(* The reporting service *)

NextStatus(s) == CASE s = "PENDING" -> {"RUNNING"}
                   [] s = "RUNNING" -> {"COMPLETED", "FAILED"}
                   [] OTHER         -> {}

\* the service works on the report of a run's submission
ServerProgress ==
    /\ \E i \in 1..Len(reports) : \E s \in NextStatus(reports[i].status) :
          /\ \E r \in Runs : hist[r].ownId = reports[i].requestId
          /\ reports' = [reports EXCEPT ![i].status = s]
    /\ UNCHANGED <<nextId, now, prog, folderId, pc, request_id, download_url,
                   start_time, exc, file_path, stream, files, handles, token,
                   hist>>

\* another caller of the same account submits a report request; its report
\* is seen either not yet generated or generated
OtherSubmit ==
    /\ \E s \in {"PENDING", "COMPLETED"} : Accept(s)
    /\ hist' = [q \in Runs |->
                  IF pc[q] = "fallback"
                  THEN [hist[q] EXCEPT !.interposed = TRUE] ELSE hist[q]]
    /\ UNCHANGED <<now, prog, folderId, pc, request_id, download_url,
                   start_time, exc, file_path, stream, files, handles, token>>


----------------------------------------------------------------------------
(* The download, lines 178-189 *)

\* line 179: the filename prefix of the script
FilenamePrefix(p) == IF p = "inventory" THEN "inventory_report_" ELSE "return_report_"

\* lines 179-180: the path is the prefix and the clock, to the second
FilePath(p, t) == <<FilenamePrefix(p), t>>

\* str(url), as requests applies it to its argument
PyStr(url) == IF url = NoneStr THEN <<"None">> ELSE url

\* requests.get(url): whether requests sends a request for url; it raises
\* MissingSchema / InvalidSchema without sending when, stripped of leading
\* blanks, url has no http(s) scheme in either case
RequestsAccepts(url) == StartsWithHttp(Lower(LStrip(PyStr(url))))

\* the responses the file host may give: HTTP status and body chunks
Chunks(n) == [i \in 1..n |-> "chunk"]
DownloadResponses ==
    { [status |-> 200, body |-> Chunks(n)] : n \in 0..MaxChunks }
    \cup { [status |-> 404, body |-> <<"Not Found">>],
           [status |-> 500, body |-> <<>>] }

\* f.write / open(file_path, "wb") on the filesystem
WriteFile(fs, path, content) ==
    [q \in DOMAIN fs \cup {path} |-> IF q = path THEN content ELSE fs[q]]

\* lines 179-184: the path, requests.get(download_url, stream=True), open
Download(r) ==
    LET path == FilePath(prog[r], now)
        h    == [hist[r] EXCEPT !.getCalls = @ + 1, !.getUrl = download_url[r]]
    IN  /\ pc[r] = "download"
        /\ file_path' = [file_path EXCEPT ![r] = path]
        /\ IF ~RequestsAccepts(download_url[r])
           THEN /\ Raise(r, "MissingSchema")
                /\ hist' = [hist EXCEPT ![r] = h]
                /\ UNCHANGED <<stream, files, handles>>
           ELSE \/ /\ Raise(r, "ConnectionError")
                   /\ hist' = [hist EXCEPT ![r] = [h EXCEPT !.sent = TRUE]]
                   /\ UNCHANGED <<stream, files, handles>>
                \/ \E resp \in DownloadResponses :
                     /\ hist' = [hist EXCEPT ![r] =
                                   [h EXCEPT !.sent = TRUE, !.dlStatus = resp.status,
                                             !.respOpen = TRUE]]
                     /\ stream' = [stream EXCEPT ![r] = resp.body]
                     /\ files' = WriteFile(files, path, <<>>)
                     /\ handles' = handles \cup {r}
                     /\ pc' = [pc EXCEPT ![r] = "stream"]
                     /\ exc' = exc
        /\ UNCHANGED <<reports, nextId, now, prog, folderId, request_id,
                       download_url, start_time, token>>

\* lines 183-184 without the with statements: nothing is closed on the way out
LeftOpen(open, r) == open

\* lines 183-184: leaving a with block, normally or by an exception, closes
\* what the block opened
WithExit(open, r) == open \ {r}

\* lines 185-186: one chunk of r.iter_content written, or the stream breaking;
\* the with statements close the file and the response either way
StreamChunk(r) ==
    /\ pc[r] = "stream"
    /\ stream[r] # <<>>
    /\ \/ /\ files' = WriteFile(files, file_path[r],
                                Append(files[file_path[r]], Head(stream[r])))
          /\ stream' = [stream EXCEPT ![r] = Tail(@)]
          /\ UNCHANGED <<pc, exc, handles, hist>>
       \/ /\ Raise(r, "ChunkedEncodingError")
          /\ handles' = WithExit(handles, r)
          /\ hist' = [hist EXCEPT ![r].respOpen = r \in WithExit({r}, r)]
          /\ UNCHANGED <<stream, files>>
    /\ UNCHANGED <<reports, nextId, now, prog, folderId, request_id,
                   download_url, start_time, file_path, token>>

\* line 192 without the test: the relay is called whatever the configuration
UploadAlways(folder) == TRUE

\* line 192: if GDRIVE_FOLDER_ID
UploadConfigured(folder) == folder # ""

\* line 188: os.path.abspath(file_path), the path under the working directory
AbsPath(path) == <<"/cwd">> \o path

\* lines 186-192: the stream is exhausted, the with blocks exit, the path is
\* reported, and the relay is called if a folder is configured
FinishDownload(r) ==
    /\ pc[r] = "stream"
    /\ stream[r] = <<>>
    /\ handles' = WithExit(handles, r)
    /\ hist' = [hist EXCEPT ![r].completeMsg = TRUE,
                            ![r].artifact = files[file_path[r]],
                            ![r].respOpen = r \in WithExit({r}, r)]
    /\ pc' = [pc EXCEPT ![r] = IF UploadConfigured(folderId) THEN "upload" ELSE "done"]
    /\ UNCHANGED <<reports, nextId, now, prog, folderId, request_id,
                   download_url, start_time, exc, file_path, stream, files, token>>

----------------------------------------------------------------------------
(* The upload relay, lines 48-98 *)

\* what the identity provider and Drive do in one upload
DriveBehaviours == {"ok", "refresh_fails", "login_fails", "create_fails"}

\* get_drive_service(): the exception it raises, "" if it returns a service
get_drive_service(tok, secrets, drive) ==
    CASE tok = "invalid" -> "ValueError"
      [] tok = "valid"   -> ""
      [] tok = "expired" -> IF drive = "refresh_fails" THEN "RefreshError" ELSE ""
      [] OTHER           -> IF ~secrets THEN "FileNotFoundError"
                            ELSE IF drive = "login_fails" THEN "OAuthError" ELSE ""

\* lines 68-70: the token file after get_drive_service()
TokenAfter(tok, err) == IF err = "" THEN "valid" ELSE tok

\* lines 77-94: the exception raised in the try block, "" if none
UploadBody(tok, secrets, drive) ==
    LET err == get_drive_service(tok, secrets, drive)
    IN  IF err # "" THEN err
        ELSE IF drive = "create_fails" THEN "HttpError" ELSE ""

\* line 97 as except HttpError
CaughtHttpErrorOnly(e) == e = "HttpError"

\* line 97: except Exception catches every exception of the try block
Caught(e) == TRUE

\* lines 192-193 and upload_to_drive
Upload(r) ==
    /\ pc[r] = "upload"
    /\ \E tok \in (IF token = "unread" THEN TokenStates ELSE {token}),
          secrets \in BOOLEAN, drive \in DriveBehaviours :
         LET e == UploadBody(tok, secrets, drive)
         IN  /\ token' = TokenAfter(tok, get_drive_service(tok, secrets, drive))
             /\ hist' = [hist EXCEPT ![r].uploadCalls = @ + 1,
                                     ![r].uploadArg = AbsPath(file_path[r]),
                                     ![r].uploadError = e]
             /\ pc' = [pc EXCEPT ![r] = "done"]
             /\ exc' = [exc EXCEPT ![r] = IF e # "" /\ ~Caught(e) THEN e ELSE ""]
    /\ UNCHANGED <<reports, nextId, now, prog, folderId, request_id,
                   download_url, start_time, file_path, stream, files, handles>>

----------------------------------------------------------------------------
(* One workflow run (run 1) against the service and other callers *)

Step(r) ==
    \/ Generate(r)
    \/ FallbackListing(r)
    \/ PollList(r)
    \/ PollTimeout(r)
    \/ Detail(r)
    \/ Sleep(r)
    \/ Download(r)
    \/ StreamChunk(r)
    \/ FinishDownload(r)
    \/ Upload(r)

Next ==
    \/ Step(1)
    \/ ServerProgress
    \/ OtherSubmit

Spec == Init /\ [][Next]_vars

----------------------------------------------------------------------------
(* Two workflow runs started side by side, from submission to the local    *)
(* file, each followed as far as its first poll takes it                    *)

NextPair ==
    \/ \E r \in Runs :
          \/ Generate(r)
          \/ PollList(r)
          \/ Detail(r)
          \/ Download(r)
          \/ StreamChunk(r)
          \/ FinishDownload(r)
    \/ ServerProgress

SpecPair == Init /\ [][NextPair]_vars

----------------------------------------------------------------------------
(* Two workflow runs submitting against the same account: their submission *)
(* and requestId resolution steps, interleaved                             *)

NextTwo == \E r \in Runs : Generate(r) \/ FallbackListing(r)

SpecTwo == Init /\ [][NextTwo]_vars

----------------------------------------------------------------------------
(* Vocabulary of the properties *)

\* the response is an authentication failure: 401/403, or a body that shows
\* the login page
AuthRejected(resp) ==
    \/ resp.status_code \in {401, 403}
    \/ \E i \in 1..Len(resp.text) : resp.text[i] \in {"login", "Login", "LOGIN"}

\* the body of the response carries an identifier
CarriesId(resp) == \E n \in 1..Len(Digits) : resp.text = IdBody(n)
IdOf(resp) == CHOOSE n \in 1..Len(Digits) : resp.text = IdBody(n)

\* the generation endpoint answered success
Successful(resp) == resp.status_code \in {200, 201, 204} /\ ~AuthRejected(resp)

\* the run issued no poll, no download and no upload
NoPollDownloadUpload(r) ==
    /\ ~hist[r].polled /\ ~hist[r].detailed /\ ~hist[r].slept
    /\ hist[r].getCalls = 0 /\ hist[r].uploadCalls = 0

\* the run has left the resolution of its request_id behind
Resolved(r) == pc[r] \notin {"generate", "fallback"} /\ Truthy(request_id[r])

----------------------------------------------------------------------------
(* C1: when the poll loop ends because MAX_WAIT_SECONDS elapsed, the run ends  *)
(* in a poll-timeout failure, and neither requests.get on the download        *)
(* location nor the upload is ever called.                                    *)
C1_TimeoutIsTerminalFailure ==
    \A r \in Runs :
        hist[r].timedOut =>
            /\ hist[r].getCalls = 0
            /\ hist[r].uploadCalls = 0
            /\ pc[r] = "done" => exc[r] = "PollTimeoutError"

(* C2: once a detail call has yielded a location beginning with a URL scheme, *)
(* the loop has stopped at that poll: no listing request, detail request or   *)
(* sleep follows, and the one download request uses exactly that location.    *)
C2_StopsAtResolvingPoll ==
    \A r \in Runs :
        hist[r].resolved # NoneStr =>
            /\ pc[r] \in {"download", "stream", "upload", "done"}
            /\ hist[r].sinceResolve = 0
            /\ ~hist[r].timedOut
            /\ download_url[r] = hist[r].resolved
            /\ hist[r].getCalls <= 1
            /\ hist[r].getCalls = 1 => hist[r].getUrl = hist[r].resolved

C2_Witness ==
    \E r \in Runs :
        /\ hist[r].resolved = Url /\ hist[r].slept
        /\ hist[r].getCalls = 1 /\ hist[r].sent /\ pc[r] = "done"

(* C3: a generation response with status 401 or 403, or whose body shows the  *)
(* login page, ends the run with the authentication failure before any        *)
(* status-listing request: no fallback query, poll, download or upload.       *)
C3_AuthFailureBeforeListing ==
    \A r \in Runs :
        (hist[r].nPost = 1 /\ AuthRejected(hist[r].resp)) =>
            /\ pc[r] = "done"
            /\ exc[r] \in {"RuntimeError: Session expired or unauthorized",
                           "RuntimeError: Redirected to login page"}
            /\ hist[r].nFallback = 0
            /\ NoPollDownloadUpload(r)

C3_Witness ==
    \E r \in Runs :
        /\ hist[r].resp.status_code = 200
        /\ exc[r] = "RuntimeError: Redirected to login page"
        /\ reports # <<>>

(* C4: when the body gave no id and the fallback listing is empty or its      *)
(* first entry has no requestId, the run ends with the resolution failure     *)
(* and performs no poll, no download and no upload.                           *)
C4_NoIdentifierIsResolutionFailure ==
    \A r \in Runs :
        (/\ hist[r].nFallback = 1 /\ hist[r].fbOk
         /\ \/ hist[r].fbIds = <<>>
            \/ hist[r].fbIds[1] = None) =>
            /\ pc[r] = "done"
            /\ exc[r] = "RuntimeError: Could not determine requestId"
            /\ NoPollDownloadUpload(r)

C4_Witness ==
    \E r \in Runs :
        /\ hist[r].fbOk /\ Len(hist[r].fbIds) = 1 /\ hist[r].fbIds[1] = None
        /\ exc[r] = "RuntimeError: Could not determine requestId"

C7_DistinctRequestIds ==
    \A r1, r2 \in Runs :
        (r1 # r2 /\ Resolved(r1) /\ Resolved(r2)) => request_id[r1] # request_id[r2]

\* the run took the id of its body, or queried the listing while its own
\* accepted submission was still the most recent one
OwnFirst(r) ==
    \/ hist[r].nFallback = 0
    \/ hist[r].ownId # None /\ ~hist[r].interposed

(* C7, amended: the request_ids two runs adopt are distinct when each run     *)
(* either took the id of its response body or made its fallback query with    *)
(* its own accepted submission still the most recent entry of the listing.    *)
C7_DistinctWhenOwnFirst ==
    \A r1, r2 \in Runs :
        (r1 # r2 /\ Resolved(r1) /\ Resolved(r2) /\ OwnFirst(r1) /\ OwnFirst(r2))
            => request_id[r1] # request_id[r2]

C7_Witness ==
    \E r1, r2 \in Runs :
        /\ r1 # r2 /\ Resolved(r1) /\ Resolved(r2) /\ OwnFirst(r1) /\ OwnFirst(r2)
        /\ hist[r1].nFallback = 1 /\ hist[r2].nFallback = 1

(* C8, as stated: a detail response that is a raw string u and one that is    *)
(* the object {"status": u} both normalize to u, and every detail response    *)
(* that is a raw string or an object normalizes to a single string.           *)
C8_NormalizesToOneString ==
    \A r \in Runs :
        LET val == hist[r].detailVal
        IN  /\ (val.kind = "str" \/ (val.kind = "dict" /\ val.has))
                  => download_url[r] = val.s
            /\ val.kind \in {"str", "dict"} => download_url[r] # NoneStr

(* C8, the round trip alone: the raw string u and the object {"status": u}    *)
(* normalize to the same location u.                                          *)
C8_RoundTrip ==
    \A r \in Runs :
        LET val == hist[r].detailVal
        IN  (val.kind = "str" \/ (val.kind = "dict" /\ val.has))
                => download_url[r] = val.s

(* C9: a download request on the resolved location that ends in a transport   *)
(* error or a non-success HTTP status ends the run with a failure: no         *)
(* "download complete" report and no call of the upload relay.                *)
C9_DownloadFailureTerminates ==
    \A r \in Runs :
        (/\ hist[r].resolved # NoneStr /\ hist[r].sent
         /\ \/ exc[r] \in {"ConnectionError", "ChunkedEncodingError"}
            \/ hist[r].dlStatus \notin {0, 200}) =>
            /\ ~hist[r].completeMsg
            /\ hist[r].uploadCalls = 0
            /\ pc[r] \in {"stream", "done"}
            /\ pc[r] = "done" => exc[r] # ""

(* C10: whatever fails inside upload_to_drive, the exception does not reach   *)
(* main(): the run ends normally, and the downloaded file is as the download  *)
(* step left it.                                                              *)
C10_UploadFailuresSwallowed ==
    \A r \in Runs :
        hist[r].uploadCalls = 1 =>
            /\ pc[r] = "done"
            /\ exc[r] = ""
            /\ file_path[r] \in DOMAIN files
            /\ files[file_path[r]] = hist[r].artifact

C10_Witness ==
    \E r \in Runs :
        /\ hist[r].uploadCalls = 1
        /\ hist[r].uploadError = "FileNotFoundError"
        /\ hist[r].artifact # <<>>

----------------------------------------------------------------------------
(* The upload call, the search for the target, handles, the RequestId *)

(* C11: the upload relay is called at most once in a run, only once the       *)
(* download step has written the whole response to the local file and closed  *)
(* it, only with the absolute path of that file, and only when a folder id is *)
(* configured; without a folder id the relay is never called nor about to be. *)
C11_UploadOnceAfterDownload ==
    \A r \in Runs :
        /\ hist[r].uploadCalls <= 1
        /\ (pc[r] = "upload" \/ hist[r].uploadCalls = 1) =>
              /\ folderId # ""
              /\ hist[r].completeMsg
              /\ hist[r].dlStatus # 0
              /\ stream[r] = <<>>
              /\ r \notin handles
              /\ files[file_path[r]] = hist[r].artifact
        /\ hist[r].uploadCalls = 1 =>
              /\ hist[r].uploadArg[1] = "/cwd"
              /\ Tail(hist[r].uploadArg) = file_path[r]
        /\ folderId = "" => hist[r].uploadCalls = 0 /\ pc[r] # "upload"

C11_Witness ==
    \E r \in Runs :
        /\ hist[r].uploadCalls = 1
        /\ hist[r].artifact # <<>>
        /\ hist[r].uploadArg = <<"/cwd">> \o file_path[r]

\* the positions of the listing that hold the entry of the run's request
Matches(r) == { i \in 1..Len(reports) : reports[i].requestId = request_id[r] }

(* C12: a status-listing request that returns leads to the detail request     *)
(* exactly when some entry of the listing, at whatever position, carries the  *)
(* run's requestId and is COMPLETED; entries of other requests decide         *)
(* nothing, and the download location is assigned by a detail step only.      *)
C12_TargetByRequestId ==
    [][\A r \in Runs :
         /\ (pc[r] = "poll" /\ pc'[r] \in {"detail", "sleep"}) =>
               (pc'[r] = "detail" <=>
                   \E i \in Matches(r) : reports[i].status = "COMPLETED")
         /\ pc'[r] = "detail" => pc[r] \in {"poll", "detail"}
         /\ download_url'[r] # download_url[r] => pc[r] = "detail"]_vars

C12_Witness ==
    \E r \in Runs :
        /\ pc[r] = "detail"
        /\ hist[r].seenAt >= 2
        /\ \E j \in 1..Len(reports) :
              /\ reports[j].requestId # request_id[r]
              /\ reports[j].status = "COMPLETED"

(* C14: once the download step is left, by its end or by an exception in the  *)
(* middle of the stream, the run holds no open file handle and no open        *)
(* download response.                                                         *)
C14_HandlesReleased ==
    \A r \in Runs :
        pc[r] \in {"upload", "done"} => r \notin handles /\ ~hist[r].respOpen

C14_Witness ==
    \E r \in Runs :
        /\ pc[r] = "done"
        /\ exc[r] = "ChunkedEncodingError"
        /\ files[file_path[r]] # <<>>
        /\ r \notin handles

(* C16: a run issues one generation POST and no second one; from the moment   *)
(* its RequestId is resolved the RequestId keeps its value, and every poll    *)
(* filter and every detail request carries that value.                        *)
C16_OneRequestId ==
    [][\A r \in Runs :
         /\ hist'[r].nPost <= 1
         /\ pc[r] # "generate" => hist'[r].nPost = 1
         /\ Resolved(r) =>
               /\ request_id'[r] = request_id[r]
               /\ hist'[r].polled => hist'[r].pollId = request_id[r]
               /\ hist'[r].detailed => hist'[r].detailId = request_id[r]]_vars

C16_Witness ==
    \E r \in Runs :
        /\ hist[r].nPost = 1
        /\ hist[r].slept
        /\ hist[r].detailed
        /\ hist[r].detailId = request_id[r]
        /\ FirstRequestId(reports) # request_id[r]

\* what a poll of run r sees of its target in the listing
Observed(r) ==
    IF Matches(r) = {} THEN "absent"
    ELSE reports[CHOOSE i \in Matches(r) : \A j \in Matches(r) : i <= j].status

(* C18: the detail request follows only a poll that saw the target COMPLETED; *)
(* a poll that returns having seen the target absent, PENDING, RUNNING or     *)
(* FAILED makes no detail call and leaves the location alone, the run then    *)
(* sleeps POLL_INTERVAL and is back at the loop test: FAILED ends nothing.    *)
C18_DetailOnlyWhenCompleted ==
    [][\A r \in Runs :
         /\ (pc[r] = "poll" /\ pc'[r] = "detail") => Observed(r) = "COMPLETED"
         /\ (/\ pc[r] = "poll" /\ WithinBudget(r) /\ pc'[r] # "poll"
             /\ exc'[r] = "" /\ Observed(r) # "COMPLETED") =>
               /\ pc'[r] = "sleep"
               /\ hist'[r].detailed = hist[r].detailed
               /\ download_url'[r] = download_url[r]
         /\ (pc[r] = "sleep" /\ pc'[r] # "sleep") =>
               /\ pc'[r] = "poll"
               /\ now' = now + POLL_INTERVAL
               /\ hist'[r].detailed = hist[r].detailed]_vars

C18_Witness ==
    \E r \in Runs :
        /\ pc[r] = "sleep"
        /\ hist[r].seenStatus = "FAILED"
        /\ hist[r].slept
        /\ ~hist[r].detailed
        /\ WithinBudget(r)

----------------------------------------------------------------------------
(* The end of polling, the local path, the location handed to the download *)

\* run r is past its poll loop
PollingEnded(r) == hist[r].polled /\ pc[r] \notin {"poll", "detail", "sleep"}

(* C13 (the two ways out): with every HTTP call of the loop answered, polling *)
(* has ended only by a well-formed location having been resolved or by the    *)
(* MAX_WAIT_SECONDS budget having elapsed.                                    *)
C13_PollingEndsTwoWays ==
    \A r \in Runs :
        (PollingEnded(r) /\ exc[r] # "RequestException") =>
            \/ hist[r].timedOut
            \/ WellFormed(download_url[r])

(* C13 (the rest): a status-listing request starts only within the budget,    *)
(* and the loop test is reached again only through one sleep of               *)
(* POLL_INTERVAL seconds.                                                     *)
C13_ListingDiscipline ==
    [][\A r \in Runs :
         /\ (pc[r] = "poll" /\ pc'[r] # "poll" /\ ~hist'[r].timedOut) =>
               now - start_time[r] < MAX_WAIT_SECONDS
         /\ (hist[r].polled /\ pc[r] # "poll" /\ pc'[r] = "poll") =>
               pc[r] = "sleep" /\ now' = now + POLL_INTERVAL
         /\ pc[r] = "sleep" => pc'[r] \in {"sleep", "poll"}]_vars

(* C15: two runs of the same report type that have both opened their local    *)
(* file have opened different paths, and the file a run completed still holds *)
(* what that run wrote.                                                       *)
C15_DistinctLocalPaths ==
    \A r \in Runs :
        /\ \A q \in Runs \ {r} :
              (/\ prog[q] = prog[r]
               /\ hist[q].dlStatus # 0
               /\ hist[r].dlStatus # 0) => file_path[q] # file_path[r]
        /\ hist[r].completeMsg => files[file_path[r]] = hist[r].artifact

(* C17: whenever a run that made a detail request has called the download,   *)
(* the location passed begins with "http" and is the well-formed location a   *)
(* detail request resolved.                                                   *)
C17_DownloadOnlyWellFormed ==
    \A r \in Runs :
        (hist[r].detailed /\ hist[r].getCalls >= 1) =>
            /\ WellFormed(hist[r].getUrl)
            /\ hist[r].getUrl = hist[r].resolved

====
